---- MODULE Spec2Model ----
(***************************************************************************)
(* Model of src/draw.rs of vulkano-glyph: the Draw renderer, its           *)
(* text_vertices vertex assembler and the to_ndc coordinate mapper.        *)
(*                                                                         *)
(* Three specifications:                                                     *)
(*   Spec     the Draw object, driven by a caller that owns a command      *)
(*            recording, a glyph run (GlyphData) and an atlas (GpuCache);  *)
(*   SpecVertices  the pure function text_vertices, applied to longer runs *)
(*            over more glyphs than Spec can afford;                       *)
(*   SpecNdc  the pure function to_ndc, applied to inputs that cover the   *)
(*            whole i32 range of its pixel argument.                       *)
(***************************************************************************)
EXTENDS Integers, Sequences, FiniteSets, TLC

VARIABLES
    pipe,      \* Draw.pipe: the graphics pipeline handle
    vbuf,      \* Draw.vbuf: CpuBufferPool<Vertex>, as its allocation cursor
    ubuf,      \* Draw.ubuf: CpuBufferPool<vs::ty::Data>, as its allocation cursor
    pool,      \* Draw.pool: FixedSizeDescriptorSetsPool, as its allocation cursor
    sampler,   \* Draw.sampler
    ibuf,      \* Draw.ibuf: CpuBufferPool<DrawIndirectCommand>, as its cursor
    cmd,       \* the caller's AutoCommandBufferBuilder (moved into draw)
    data,      \* the caller's GlyphData, borrowed by draw
    cache,     \* the caller's GpuCache, borrowed by draw
    screen,    \* the caller's transform and screen extent, passed to every draw
    last,      \* by-value arguments of the latest draw call and the fault injected
    result,    \* what the latest draw call returned
    calls,     \* number of draw calls made
    tv_in,     \* SpecVertices: the inputs of text_vertices
    tv_out,    \* SpecVertices: what text_vertices returned
    ndc_in,    \* SpecNdc: the inputs of to_ndc
    ndc_out,   \* SpecNdc: the outputs of to_ndc
    overflow_checks  \* SpecNdc: whether the build traps integer overflow

vars == <<pipe, vbuf, ubuf, pool, sampler, ibuf, cmd, data, cache, screen, last,
          result, calls, tv_in, tv_out, ndc_in, ndc_out, overflow_checks>>

-----------------------------------------------------------------------------
(* Bounds of the model.                                                    *)

\* longest glyph run in Spec
MaxGlyphs == 2

\* longest glyph run in SpecVertices
MaxRun == 3

\* number of draw calls in a behaviour
MaxDraws == 2

-----------------------------------------------------------------------------
(* i32 and f32 arithmetic.  TLC's integers are 32 bits wide and trap on    *)
(* overflow, so every intermediate value below stays inside the i32 range. *)

I32Min == -(2^30) - 2^30

I32Max == (2^30 - 1) + 2^30

\* 2 * x in i32 with two's-complement wrap-around (a build without overflow checks)
I32WrappingMul2(x) ==
    IF x >= 2^30 THEN 2 * (x - 2^30) + I32Min
    ELSE IF x < -(2^30) THEN (2 * (x + 2^30) + 2^30) + 2^30
    ELSE 2 * x

\* whether 2 * x leaves the i32 range (a build with overflow checks panics)
I32Mul2Overflows(x) == x >= 2^30 \/ x < -(2^30)

\* An f32 holding an integer value is [m, e], the value m * 2^e, in normal
\* form: e = 0 when |m| < 2^24, otherwise 2^23 <= |m| < 2^24.
F32Fits(i, k) ==
    IF k <= 6 THEN -(2^(24 + k)) < i /\ i < 2^(24 + k)
    ELSE IF k = 7 THEN i # I32Min
    ELSE TRUE

\* `i as f32` for an integer i: round to nearest, ties to even, 24-bit significand
AsF32(i) ==
    IF F32Fits(i, 0) THEN [m |-> i, e |-> 0]
    ELSE LET k  == CHOOSE j \in 1..8 : F32Fits(i, j) /\ ~F32Fits(i, j - 1)
             q  == 2^k
             m0 == i \div q
             r  == i % q
             m1 == IF 2 * r > q \/ (2 * r = q /\ m0 % 2 = 1) THEN m0 + 1 ELSE m0
         IN  IF m1 = 2^24 \/ m1 = -(2^24)
             THEN [m |-> m1 \div 2, e |-> k + 1]
             ELSE [m |-> m1, e |-> k]

\* a <= b on f32 values in normal form
F32Leq(a, b) ==
    IF a.e = b.e THEN a.m <= b.m
    ELSE IF a.e > b.e THEN a.m < 0
    ELSE b.m > 0

\* 2.0 * a, exact in binary floating point
F32Mul2(a) ==
    IF a.e = 0 /\ -(2^23) < a.m /\ a.m < 2^23 THEN [m |-> 2 * a.m, e |-> 0]
    ELSE [m |-> a.m, e |-> a.e + 1]

-----------------------------------------------------------------------------
(* to_ndc.  The result is kept as the pair [num, den] that stands for the  *)
(* f32 value num / den - 1.0: the quotient and the difference are kept     *)
(* exact, and IEEE rounding of either is monotone and leaves -1.0 and 1.0  *)
(* fixed, so order and the two end points are those of the f32 result.     *)

to_ndc(x, size) == [num |-> AsF32(I32WrappingMul2(x)), den |-> size]

NdcIsMinusOne(v) == v.num.m = 0

NdcIsOne(v) == v.num = F32Mul2(v.den)

\* a <= b for two results over the same positive size
NdcLeq(a, b) == F32Leq(a.num, b.num)

-----------------------------------------------------------------------------
(* The collaborators at their interface: GlyphData, GpuCache, Error.       *)

Glyphs == {1, 2}

Fonts == {"font"}

\* the (color, z) pairs a run is laid out with
Styles == {[color |-> "white", z |-> 0], [color |-> "red", z |-> 1]}

\* the (transform, [w, h]) a caller passes to draw
CallArgs == {[transform |-> "identity", w |-> 100, h |-> 100],
             [transform |-> "scaled", w |-> 640, h |-> 480]}

\* glyph sequences of length 0..n
RECURSIVE GlyphSeqs(_, _)
GlyphSeqs(G, n) ==
    IF n = 0 THEN {<<>>}
    ELSE LET shorter == GlyphSeqs(G, n - 1)
         IN  shorter \cup {Append(s, g) : s \in {t \in shorter : Len(t) = n - 1}, g \in G}

\* GlyphData { font, glyphs, color, z }
GlyphDataOver(seqs) ==
    {[font |-> f, glyphs |-> g, color |-> st.color, z |-> st.z] :
        f \in Fonts, g \in seqs, st \in Styles}

\* the runs the caller of Spec lays out: every glyph sequence, in one style
GlyphData == {d \in GlyphDataOver(GlyphSeqs(Glyphs, MaxGlyphs)) : d.color = "red"}

\* where the atlas places glyph g on screen, in pixels (glyph 1 at
\* {min: (10, 20), max: (50, 80)}); on-screen coordinates are far inside
\* +-2^30, so 2 * x does not overflow in Spec and SpecVertices
ScreenRect(g) ==
    [min |-> [x |-> 10 * g, y |-> 20 * g], max |-> [x |-> 10 * g + 40, y |-> 20 * g + 60]]

\* where the atlas holds glyph g in the texture (in 1/64 of the atlas side)
UvRect(g) ==
    [min |-> [x |-> g, y |-> g + 10], max |-> [x |-> g + 20, y |-> g + 30]]

CacheError(g) == [kind |-> "CacheError", at |-> g]

\* a GpuCache: what rect_for answers for each glyph, and its texture image
GpuCacheOver(G) == [rects : [G -> {"Some", "None", "Err"}], image : {"atlas_image"}]

GpuCache == GpuCacheOver(Glyphs)

\* GpuCache::rect_for(font, gly) -> Result<Option<(uv_rect, screen_rect)>, Error>
rect_for(c, font, gly) ==
    CASE c.rects[gly] = "Some" ->
            [tag |-> "Some", uv_rect |-> UvRect(gly), screen_rect |-> ScreenRect(gly)]
      [] c.rects[gly] = "None" -> [tag |-> "None"]
      [] OTHER -> [tag |-> "Err", err |-> CacheError(gly)]

\* GpuCache::image()
image(c) == c.image

Ok(v) == [ok |-> TRUE, val |-> v]

Err(e) == [ok |-> FALSE, err |-> e]

\* the `?` conversion of a vulkano error into this crate's Error
From(e) == [kind |-> e, at |-> 0]

-----------------------------------------------------------------------------
(* text_vertices                                                           *)

\* Vertex with the screen width and height exchanged
VertexAxesSwapped(uv_rect, screen_rect, d, screen_width, screen_height) ==
    [tl     |-> <<to_ndc(screen_rect.min.x, screen_height),
                  to_ndc(screen_rect.min.y, screen_width)>>,
     br     |-> <<to_ndc(screen_rect.max.x, screen_height),
                  to_ndc(screen_rect.max.y, screen_width)>>,
     tex_tl |-> <<uv_rect.min.x, uv_rect.min.y>>,
     tex_br |-> <<uv_rect.max.x, uv_rect.max.y>>,
     color  |-> d.color,
     z      |-> d.z]

\* the Vertex pushed for one atlas hit
Vertex(uv_rect, screen_rect, d, screen_width, screen_height) ==
    [tl     |-> <<to_ndc(screen_rect.min.x, screen_width),
                  to_ndc(screen_rect.min.y, screen_height)>>,
     br     |-> <<to_ndc(screen_rect.max.x, screen_width),
                  to_ndc(screen_rect.max.y, screen_height)>>,
     tex_tl |-> <<uv_rect.min.x, uv_rect.min.y>>,
     tex_br |-> <<uv_rect.max.x, uv_rect.max.y>>,
     color  |-> d.color,
     z      |-> d.z]

\* the for loop of text_vertices from glyph i on, with `vertices` pushed so far
RECURSIVE text_vertices_loop(_, _, _, _, _, _)
text_vertices_loop(d, c, screen_width, screen_height, i, vertices) ==
    IF i > Len(d.glyphs) THEN Ok(vertices)
    ELSE LET r == rect_for(c, d.font, d.glyphs[i])
         IN  IF r.tag = "Err" THEN Err(r.err)
             ELSE IF r.tag = "Some"
             THEN text_vertices_loop(d, c, screen_width, screen_height, i + 1,
                      Append(vertices,
                             Vertex(r.uv_rect, r.screen_rect, d, screen_width, screen_height)))
             ELSE text_vertices_loop(d, c, screen_width, screen_height, i + 1, vertices)

\* text_vertices with one slip: "push_none" pushes a vertex for a missing glyph
\* too, "swallow_err" skips a failed lookup like a missing glyph, "prepend"
\* inserts each vertex at the front
RECURSIVE text_vertices_slip(_, _, _, _, _, _, _)
text_vertices_slip(d, c, screen_width, screen_height, i, vertices, slip) ==
    IF i > Len(d.glyphs) THEN Ok(vertices)
    ELSE LET g == d.glyphs[i]
             r == rect_for(c, d.font, g)
             v == Vertex(UvRect(g), ScreenRect(g), d, screen_width, screen_height)
         IN  IF r.tag = "Err" /\ slip # "swallow_err" THEN Err(r.err)
             ELSE IF r.tag = "Some" \/ (r.tag = "None" /\ slip = "push_none")
             THEN text_vertices_slip(d, c, screen_width, screen_height, i + 1,
                      IF slip = "prepend" THEN <<v>> \o vertices ELSE Append(vertices, v),
                      slip)
             ELSE text_vertices_slip(d, c, screen_width, screen_height, i + 1, vertices, slip)

text_vertices_push_none(d, c, screen_width, screen_height) ==
    text_vertices_slip(d, c, screen_width, screen_height, 1, <<>>, "push_none")

text_vertices_swallow_err(d, c, screen_width, screen_height) ==
    text_vertices_slip(d, c, screen_width, screen_height, 1, <<>>, "swallow_err")

text_vertices_prepend(d, c, screen_width, screen_height) ==
    text_vertices_slip(d, c, screen_width, screen_height, 1, <<>>, "prepend")

text_vertices(d, c, screen_width, screen_height) ==
    text_vertices_loop(d, c, screen_width, screen_height, 1, <<>>)

-----------------------------------------------------------------------------
(* Draw::draw                                                              *)

\* the points of draw at which a vulkano call can fail
FailPoints ==
    {"none", "vbuf.chunk", "ubuf.next", "ibuf.chunk", "add_buffer",
     "add_sampled_image", "build", "draw_indirect"}

\* the vulkano error each failing call returns
VulkanoError(fail) ==
    CASE fail \in {"vbuf.chunk", "ubuf.next", "ibuf.chunk"} -> "DeviceMemoryAllocError"
      [] fail \in {"add_buffer", "add_sampled_image"} -> "PersistentDescriptorSetError"
      [] fail = "build" -> "PersistentDescriptorSetBuildError"
      [] OTHER -> "DrawIndirectError"

\* a pool that hands out its first allocation again
chunk_reused(n, items) == [pool |-> n + 1, buf |-> [id |-> 1, items |-> items]]

\* a pool that is asked twice
chunk_twice(n, items) == [pool |-> n + 2, buf |-> [id |-> n + 2, items |-> items]]

\* CpuBufferPool::chunk / next on a pool whose cursor is n: the pool afterwards
\* and the handle of the allocation, which holds `items`
chunk(n, items) == [pool |-> n + 1, buf |-> [id |-> n + 1, items |-> items]]

\* pool.next().add_buffer(ubuf).add_sampled_image(image, sampler).build() on a
\* descriptor-set pool whose cursor is n
build_set(n, ub, img, smp) ==
    [pool |-> n + 1, set |-> [id |-> n + 1, buffer |-> ub, image |-> img, sampler |-> smp]]

\* vertices.len() as u32
InstanceCount(vertices) == Len(vertices)

DrawIndirectCommand(instance_count) ==
    [vertex_count |-> 4, instance_count |-> instance_count,
     first_vertex |-> 0, first_instance |-> 0]

DynamicState(w, h) ==
    [line_width |-> "None",
     viewports  |-> <<[origin |-> <<0, 0>>, dimensions |-> <<AsF32(w), AsF32(h)>>,
                       depth_range |-> <<0, 1>>]>>,
     scissors   |-> "None"]

\* AutoCommandBufferBuilder::draw_indirect: the command appended to the recording
draw_indirect(c, p, state, vb, ib, set) ==
    [c EXCEPT !.commands = Append(@, [op |-> "draw_indirect", pipe |-> p, state |-> state,
                                      vbuf |-> vb, ibuf |-> ib, set |-> set])]

\* draw from the vertex chunk on, given the assembled vertices, with the vulkano
\* call named by `fail` failing: the Draw object afterwards and the value returned
draw_record(self, c, vertices, gc, transform, w, h, fail) ==
    IF fail = "vbuf.chunk" THEN [self |-> self, ret |-> Err(From(VulkanoError(fail)))]
    ELSE
    LET instance_count == InstanceCount(vertices)
        vb    == chunk(self.vbuf, vertices)
        self1 == [self EXCEPT !.vbuf = vb.pool]
    IN
    IF fail = "ubuf.next" THEN [self |-> self1, ret |-> Err(From(VulkanoError(fail)))]
    ELSE
    LET ub    == chunk(self1.ubuf, <<[transform |-> transform]>>)
        self2 == [self1 EXCEPT !.ubuf = ub.pool]
    IN
    IF fail = "ibuf.chunk" THEN [self |-> self2, ret |-> Err(From(VulkanoError(fail)))]
    ELSE
    LET ib    == chunk(self2.ibuf, <<DrawIndirectCommand(instance_count)>>)
        self3 == [self2 EXCEPT !.ibuf = ib.pool]
    IN
    IF fail \in {"add_buffer", "add_sampled_image", "build"}
    THEN [self |-> self3, ret |-> Err(From(VulkanoError(fail)))]
    ELSE
    LET bs    == build_set(self3.pool, ub.buf, image(gc), self3.sampler)
        self4 == [self3 EXCEPT !.pool = bs.pool]
        state == DynamicState(w, h)
    IN
    IF fail = "draw_indirect" THEN [self |-> self4, ret |-> Err(From(VulkanoError(fail)))]
    ELSE [self |-> self4,
          ret  |-> Ok(draw_indirect(c, self4.pipe, state, vb.buf, ib.buf, bs.set))]

\* draw returning early, with nothing allocated or recorded, when no glyph is visible
draw_skip_empty(self, c, d, gc, transform, w, h, fail) ==
    LET vertices == text_vertices(d, gc, AsF32(w), AsF32(h))
    IN  IF ~vertices.ok THEN [self |-> self, ret |-> Err(vertices.err)]
        ELSE IF vertices.val = <<>> THEN [self |-> self, ret |-> Ok(c)]
        ELSE draw_record(self, c, vertices.val, gc, transform, w, h, fail)

\* draw allocating the uniform record before it assembles the vertices
draw_uniform_first(self, c, d, gc, transform, w, h, fail) ==
    LET vertices == text_vertices(d, gc, AsF32(w), AsF32(h))
    IN  IF ~vertices.ok
        THEN [self |-> [self EXCEPT !.ubuf = @ + 1], ret |-> Err(vertices.err)]
        ELSE draw_record(self, c, vertices.val, gc, transform, w, h, fail)

\* draw(&mut self, cmd, data, cache, transform, [w, h])
draw(self, c, d, gc, transform, w, h, fail) ==
    LET vertices == text_vertices(d, gc, AsF32(w), AsF32(h))
    IN  IF ~vertices.ok THEN [self |-> self, ret |-> Err(vertices.err)]
        ELSE draw_record(self, c, vertices.val, gc, transform, w, h, fail)

-----------------------------------------------------------------------------
(* The state machine of Spec.                                              *)

\* a recording the caller has opened, ready for draw commands
OpenRecording == [live |-> TRUE, commands |-> <<[op |-> "begin_render_pass"]>>]

\* a recording moved into a call that did not hand it back
MovedRecording == [live |-> FALSE, commands |-> <<>>]

\* draw borrowing the recording instead: the caller keeps it on failure
CallerRecordingKept(c, ret) == IF ret.ok THEN ret.val ELSE c

\* what the caller holds after draw(cmd, ..) returned ret: cmd was moved into
\* the call, and comes back only inside Ok
CallerRecording(c, ret) == IF ret.ok THEN ret.val ELSE MovedRecording

NoCall == [transform |-> "identity", w |-> 0, h |-> 0, fail |-> "none"]

NoResult == [called |-> FALSE]

TvIdle == [data |-> [font |-> "font", glyphs |-> <<>>, color |-> "white", z |-> 0],
           cache |-> [rects |-> <<>>, image |-> "atlas_image"], w |-> 100, h |-> 100]

TvNone == [called |-> FALSE]

NdcIdle == [p1 |-> 0, p2 |-> 0, size |-> 1]

NdcNone == [tag |-> "none"]

\* Draw::new succeeded: empty pools
InitDraw ==
    /\ pipe = "pipe"
    /\ vbuf = 0
    /\ ubuf = 0
    /\ pool = 0
    /\ sampler = "sampler"
    /\ ibuf = 0
    /\ last = NoCall
    /\ result = NoResult
    /\ calls = 0

\* the caller holds an open recording, a run and an atlas
Init ==
    /\ InitDraw
    /\ cmd = OpenRecording
    /\ data \in GlyphData
    /\ cache \in GpuCache
    /\ screen \in CallArgs
    /\ tv_in = TvIdle
    /\ tv_out = TvNone
    /\ ndc_in = NdcIdle
    /\ ndc_out = NdcNone
    /\ overflow_checks = FALSE

Self == [pipe |-> pipe, vbuf |-> vbuf, ubuf |-> ubuf, pool |-> pool,
         sampler |-> sampler, ibuf |-> ibuf]

\* one call of Draw::draw by the caller
Draw ==
    /\ calls < MaxDraws
    /\ cmd.live
    /\ \E fail \in FailPoints :
          \E r \in {draw(Self, cmd, data, cache, screen.transform,
                          screen.w, screen.h, fail)} :
              /\ pipe' = r.self.pipe
              /\ vbuf' = r.self.vbuf
              /\ ubuf' = r.self.ubuf
              /\ pool' = r.self.pool
              /\ sampler' = r.self.sampler
              /\ ibuf' = r.self.ibuf
              /\ cmd' = CallerRecording(cmd, r.ret)
              /\ result' = IF r.ret.ok THEN [ok |-> TRUE, val |-> "recording"] ELSE r.ret
              /\ last' = [transform |-> screen.transform, w |-> screen.w,
                           h |-> screen.h, fail |-> fail]
    /\ calls' = calls + 1
    /\ UNCHANGED <<data, cache, screen, tv_in, tv_out, ndc_in, ndc_out, overflow_checks>>

\* the caller opens a new recording after losing the previous one
BeginRecording ==
    /\ ~cmd.live
    /\ cmd' = OpenRecording
    /\ UNCHANGED <<pipe, vbuf, ubuf, pool, sampler, ibuf, data, cache, screen, last,
                   result, calls, tv_in, tv_out, ndc_in, ndc_out, overflow_checks>>

\* the caller lays out another glyph run for the recording it holds
SetGlyphData ==
    /\ calls < MaxDraws
    /\ cmd.live
    /\ \E d \in GlyphData : d # data /\ data' = d
    /\ UNCHANGED <<pipe, vbuf, ubuf, pool, sampler, ibuf, cmd, cache, screen, last,
                   result, calls, tv_in, tv_out, ndc_in, ndc_out, overflow_checks>>

\* the atlas caches, evicts or fails on glyphs between draws
UpdateCache ==
    /\ calls < MaxDraws
    /\ cmd.live
    /\ \E c \in GpuCache : c # cache /\ cache' = c
    /\ UNCHANGED <<pipe, vbuf, ubuf, pool, sampler, ibuf, cmd, data, screen, last,
                   result, calls, tv_in, tv_out, ndc_in, ndc_out, overflow_checks>>

Next == Draw \/ BeginRecording \/ SetGlyphData \/ UpdateCache

Spec == Init /\ [][Next]_vars

-----------------------------------------------------------------------------
(* SpecVertices: text_vertices as a pure function.                         *)

TvGlyphs == {1, 2, 3}

TvExtents == {<<100, 100>>, <<640, 480>>}

InitVertices ==
    /\ InitDraw
    /\ cmd = OpenRecording
    /\ data = TvIdle.data
    /\ cache = [rects |-> [g \in Glyphs |-> "None"], image |-> "atlas_image"]
    /\ screen = [transform |-> "identity", w |-> 100, h |-> 100]
    /\ tv_in \in {[data |-> d, cache |-> c, w |-> e[1], h |-> e[2]] :
                     d \in GlyphDataOver(GlyphSeqs(TvGlyphs, MaxRun)),
                     c \in GpuCacheOver(TvGlyphs), e \in TvExtents}
    /\ tv_out = TvNone
    /\ ndc_in = NdcIdle
    /\ ndc_out = NdcNone
    /\ overflow_checks = FALSE

\* draw's call: text_vertices(data, cache, (w as f32, h as f32))
CallTextVertices ==
    /\ tv_out = TvNone
    /\ tv_out' = text_vertices(tv_in.data, tv_in.cache, AsF32(tv_in.w), AsF32(tv_in.h))
    /\ UNCHANGED <<pipe, vbuf, ubuf, pool, sampler, ibuf, cmd, data, cache, screen, last,
                   result, calls, tv_in, ndc_in, ndc_out, overflow_checks>>

NextVertices == CallTextVertices

SpecVertices == InitVertices /\ [][NextVertices]_vars

-----------------------------------------------------------------------------
(* SpecNdc: to_ndc as a pure function over the range of i32.               *)

NdcPixels ==
    {I32Min, -(2^30) - 1, -(2^30), -1, 0, 1, 100, 2^24 + 1, 2^30 - 1, 2^30, I32Max}

\* screen sizes, each an integer that f32 holds exactly
NdcSizes == {1, 100, 2^24, 2^30}

InitNdc ==
    /\ InitDraw
    /\ cmd = OpenRecording
    /\ data = TvIdle.data
    /\ cache = [rects |-> [g \in Glyphs |-> "None"], image |-> "atlas_image"]
    /\ screen = [transform |-> "identity", w |-> 100, h |-> 100]
    /\ tv_in = TvIdle
    /\ tv_out = TvNone
    /\ ndc_in \in [p1 : NdcPixels, p2 : NdcPixels, size : NdcSizes]
    /\ ndc_out = NdcNone
    /\ overflow_checks \in BOOLEAN

\* one evaluation of to_ndc(x, size): a build with overflow checks panics when
\* 2 * x overflows, a build without them wraps
Eval_to_ndc(x, size) ==
    IF overflow_checks /\ I32Mul2Overflows(x) THEN [tag |-> "panic"]
    ELSE [tag |-> "value", v |-> to_ndc(x, size)]

\* to_ndc applied to pixel 0, to the pixel equal to the size, and to p1 and p2
CallToNdc ==
    /\ ndc_out = NdcNone
    /\ ndc_out' = [tag  |-> "done",
                   zero |-> Eval_to_ndc(0, AsF32(ndc_in.size)),
                   full |-> Eval_to_ndc(ndc_in.size, AsF32(ndc_in.size)),
                   at1  |-> Eval_to_ndc(ndc_in.p1, AsF32(ndc_in.size)),
                   at2  |-> Eval_to_ndc(ndc_in.p2, AsF32(ndc_in.size))]
    /\ UNCHANGED <<pipe, vbuf, ubuf, pool, sampler, ibuf, cmd, data, cache, screen, last,
                   result, calls, tv_in, tv_out, ndc_in, overflow_checks>>

NextNdc == CallToNdc

SpecNdc == InitNdc /\ [][NextNdc]_vars

-----------------------------------------------------------------------------
(* What the properties below read off a state.                             *)

\* a step of Spec that is a call of draw
DrawStep == calls' = calls + 1

\* the glyphs of run d the atlas c has a rectangle for, in run order
HitGlyphs(d, c) == SelectSeq(d.glyphs, LAMBDA g : c.rects[g] = "Some")

\* K: how many lookups of run d return Some
Hits(d, c) == Cardinality({i \in 1..Len(d.glyphs) : c.rects[d.glyphs[i]] = "Some"})

\* some lookup of run d fails
AnyErr(d, c) == \E i \in 1..Len(d.glyphs) : c.rects[d.glyphs[i]] = "Err"

\* the glyph whose lookup is the first of run d to fail
FirstErrGlyph(d, c) ==
    d.glyphs[CHOOSE i \in 1..Len(d.glyphs) :
                /\ c.rects[d.glyphs[i]] = "Err"
                /\ \A j \in 1..(i - 1) : c.rects[d.glyphs[j]] # "Err"]

LastCommand(c) == c.commands[Len(c.commands)]

IsDraw(k) == k.op = "draw_indirect"

\* the vertex the claims expect for glyph g of a run styled like d on a w x h screen
ExpectedVertex(g, d, w, h) ==
    [tl     |-> <<to_ndc(ScreenRect(g).min.x, AsF32(w)), to_ndc(ScreenRect(g).min.y, AsF32(h))>>,
     br     |-> <<to_ndc(ScreenRect(g).max.x, AsF32(w)), to_ndc(ScreenRect(g).max.y, AsF32(h))>>,
     tex_tl |-> <<UvRect(g).min.x, UvRect(g).min.y>>,
     tex_br |-> <<UvRect(g).max.x, UvRect(g).max.y>>,
     color  |-> d.color,
     z      |-> d.z]

-----------------------------------------------------------------------------
(* Properties of Spec.                                                     *)

\* C1: when no lookup of the run fails and exactly K of its N lookups return
\* Some, text_vertices yields exactly K vertices, and the DrawIndirectCommand
\* of the draw that is recorded has instance_count = K.
C1_InstanceCountIsHitCount ==
    [][DrawStep /\ ~AnyErr(data, cache) =>
         LET K  == Hits(data, cache)
             tv == text_vertices(data, cache, AsF32(last'.w), AsF32(last'.h))
         IN  /\ K <= Len(data.glyphs)
             /\ tv.ok /\ Len(tv.val) = K
             /\ result'.ok =>
                   /\ Len(LastCommand(cmd').vbuf.items) = K
                   /\ LastCommand(cmd').ibuf.items[1].instance_count = K]_vars

\* a recorded draw of a run of 2 glyphs of which exactly 1 is in the atlas
C1_Witness ==
    /\ result = [ok |-> TRUE, val |-> "recording"]
    /\ Len(data.glyphs) = 2 /\ Hits(data, cache) = 1 /\ ~AnyErr(data, cache)
    /\ IsDraw(LastCommand(cmd))
    /\ LastCommand(cmd).vbuf.items =
          text_vertices(data, cache, AsF32(last.w), AsF32(last.h)).val
    /\ LastCommand(cmd).ibuf.items[1].instance_count = 1

\* C2: when a lookup of the run fails, draw fails with the error of that lookup
\* (the first to fail) and the recording holds no draw command; a draw of a run
\* without failing lookups never fails with a lookup error, whatever is missing.
C2_LookupErrorPropagates ==
    [][DrawStep =>
         /\ AnyErr(data, cache) =>
               /\ result' = Err(CacheError(FirstErrGlyph(data, cache)))
               /\ \A i \in 1..Len(cmd'.commands) : ~IsDraw(cmd'.commands[i])
         /\ ~AnyErr(data, cache) =>
               \/ result'.ok
               \/ /\ last'.fail # "none"
                  /\ result'.err = From(VulkanoError(last'.fail))]_vars

\* glyph 1 is missing, the lookup of glyph 2 failed, and draw returned its error
C2_Witness ==
    /\ data.glyphs = <<1, 2>>
    /\ cache.rects[1] = "None" /\ cache.rects[2] = "Err"
    /\ result = Err(CacheError(2))
    /\ cmd.commands = <<>>

\* C3: a successful draw appends its command after the commands recorded so
\* far, which stay as they were; the command carries the vertex chunk, the
\* indirect chunk and the binding set allocated during this very call, none of
\* them one an earlier recorded draw carries, and its instance_count is the hit
\* count of this call's run.
C3_PoolRotationIsolation ==
    [][DrawStep /\ result'.ok =>
         LET new == LastCommand(cmd')
         IN  /\ cmd'.commands = Append(cmd.commands, new)
             /\ IsDraw(new)
             /\ new.vbuf.id > vbuf /\ new.vbuf.id = vbuf'
             /\ new.ibuf.id > ibuf /\ new.ibuf.id = ibuf'
             /\ new.set.id > pool /\ new.set.id = pool'
             /\ new.set.buffer.id > ubuf /\ new.set.buffer.id = ubuf'
             /\ new.vbuf.items =
                   text_vertices(data, cache, AsF32(last'.w), AsF32(last'.h)).val
             /\ new.ibuf.items = <<DrawIndirectCommand(Hits(data, cache))>>
             /\ \A i \in 1..Len(cmd.commands) :
                   IsDraw(cmd.commands[i]) =>
                      /\ cmd.commands[i].vbuf.id # new.vbuf.id
                      /\ cmd.commands[i].ibuf.id # new.ibuf.id
                      /\ cmd.commands[i].set.id # new.set.id
                      /\ cmd.commands[i].set.buffer.id # new.set.buffer.id]_vars

\* two draws in one recording, of runs with 2 hits and then 1 hit
C3_Witness ==
    /\ Len(cmd.commands) = 3
    /\ IsDraw(cmd.commands[2]) /\ IsDraw(cmd.commands[3])
    /\ cmd.commands[2].ibuf.items[1].instance_count = 2
    /\ cmd.commands[3].ibuf.items[1].instance_count = 1
    /\ cmd.commands[2].vbuf.id = 1 /\ cmd.commands[3].vbuf.id = 2
    /\ Len(cmd.commands[2].vbuf.items) = 2 /\ Len(cmd.commands[3].vbuf.items) = 1

\* C7: a draw with no visible glyph, none of whose vulkano calls fails, returns
\* Ok, takes one allocation from each pool and one binding set, and appends
\* exactly one draw command, with an empty vertex chunk, the uniform record and
\* the indirect record {4, 0, 0, 0}.
C7_EmptyDrawIsRecorded ==
    [][/\ DrawStep
       /\ ~AnyErr(data, cache)
       /\ Hits(data, cache) = 0
       /\ last'.fail = "none"
       => /\ result'.ok
          /\ vbuf' = vbuf + 1 /\ ubuf' = ubuf + 1 /\ ibuf' = ibuf + 1 /\ pool' = pool + 1
          /\ Len(cmd'.commands) = Len(cmd.commands) + 1
          /\ IsDraw(LastCommand(cmd'))
          /\ LastCommand(cmd').vbuf.items = <<>>
          /\ LastCommand(cmd').set.buffer.items = <<[transform |-> last'.transform]>>
          /\ LastCommand(cmd').ibuf.items =
                <<[vertex_count |-> 4, instance_count |-> 0,
                   first_vertex |-> 0, first_instance |-> 0]>>]_vars

\* a recorded draw of a non-empty run none of whose glyphs is in the atlas
C7_Witness ==
    /\ result = [ok |-> TRUE, val |-> "recording"]
    /\ Len(data.glyphs) = 2 /\ Hits(data, cache) = 0 /\ ~AnyErr(data, cache)
    /\ IsDraw(LastCommand(cmd))
    /\ LastCommand(cmd).vbuf.items = <<>>
    /\ LastCommand(cmd).ibuf.items[1].instance_count = 0

\* the pools a failing draw has taken an allocation from, by the call that failed
StepsBefore(fail) ==
    CASE fail = "vbuf.chunk" -> {}
      [] fail = "ubuf.next" -> {"vbuf"}
      [] fail = "ibuf.chunk" -> {"vbuf", "ubuf"}
      [] fail \in {"add_buffer", "add_sampled_image", "build"} -> {"vbuf", "ubuf", "ibuf"}
      [] OTHER -> {"vbuf", "ubuf", "ibuf", "pool"}

\* C8: a draw whose step k fails returns that step's error and leaves no draw
\* command with the caller; every pool used by a step before k has given one
\* allocation, which is not rolled back, and no pool used by a step after k has
\* given any (a failing lookup, step 1, leaves all four pools untouched).
C8_AllOrNothing ==
    [][DrawStep /\ (AnyErr(data, cache) \/ last'.fail # "none") =>
         LET before == IF AnyErr(data, cache) THEN {} ELSE StepsBefore(last'.fail)
             failed == IF AnyErr(data, cache) THEN "text_vertices" ELSE last'.fail
         IN  /\ ~result'.ok
             /\ result'.err = IF AnyErr(data, cache)
                              THEN CacheError(FirstErrGlyph(data, cache))
                              ELSE From(VulkanoError(last'.fail))
             /\ \A i \in 1..Len(cmd'.commands) : ~IsDraw(cmd'.commands[i])
             /\ "vbuf" \in before => vbuf' = vbuf + 1
             /\ "ubuf" \in before => ubuf' = ubuf + 1
             /\ "ibuf" \in before => ibuf' = ibuf + 1
             /\ "pool" \in before => pool' = pool + 1
             /\ ("vbuf" \notin before /\ failed # "vbuf.chunk") => vbuf' = vbuf
             /\ ("ubuf" \notin before /\ failed # "ubuf.next") => ubuf' = ubuf
             /\ ("ibuf" \notin before /\ failed # "ibuf.chunk") => ibuf' = ibuf
             /\ ("pool" \notin before
                    /\ failed \notin {"add_buffer", "add_sampled_image", "build"})
                => pool' = pool]_vars

\* the indirect chunk failed after the vertex and uniform chunks were taken
C8_Witness ==
    /\ last.fail = "ibuf.chunk"
    /\ result = Err(From("DeviceMemoryAllocError"))
    /\ vbuf = 1 /\ ubuf = 1 /\ ibuf = 0 /\ pool = 0
    /\ cmd.commands = <<>>

\* C9: a successful draw takes exactly one allocation from each of the vertex,
\* uniform and indirect pools and one binding set, appends exactly one command
\* to the recording, and leaves the pipeline, the sampler, the glyph run and
\* the atlas as they were.
C9_SuccessfulDrawFrame ==
    [][DrawStep /\ result'.ok =>
         /\ vbuf' = vbuf + 1 /\ ubuf' = ubuf + 1 /\ ibuf' = ibuf + 1 /\ pool' = pool + 1
         /\ Len(cmd'.commands) = Len(cmd.commands) + 1
         /\ SubSeq(cmd'.commands, 1, Len(cmd.commands)) = cmd.commands
         /\ IsDraw(LastCommand(cmd'))
         /\ cmd'.live
         /\ pipe' = pipe /\ sampler' = sampler
         /\ data' = data /\ cache' = cache]_vars

\* the second of two successful draws on one Draw object
C9_Witness ==
    /\ result = [ok |-> TRUE, val |-> "recording"]
    /\ calls = 2
    /\ vbuf = 2 /\ ubuf = 2 /\ ibuf = 2 /\ pool = 2
    /\ Len(cmd.commands) = 3

\* C10: whenever draw returns an error the caller is left without the
\* recording it passed in: every command appended to it before is gone, and
\* no draw can be made on it until the caller opens another recording.
C10_RecordingLostOnError ==
    [][/\ (DrawStep /\ ~result'.ok) => (~cmd'.live /\ cmd'.commands = <<>>)
       /\ DrawStep => cmd.live]_vars

\* a recording that held a recorded draw was lost to a lookup failure, before
\* the second call allocated anything
C10_Witness ==
    /\ calls = 2
    /\ ~result.ok /\ result.err.kind = "CacheError"
    /\ vbuf = 1 /\ ubuf = 1 /\ ibuf = 1 /\ pool = 1
    /\ ~cmd.live /\ cmd.commands = <<>>

-----------------------------------------------------------------------------
(* Properties of SpecVertices.                                             *)

\* C5: the vertices text_vertices returns are those of the glyphs whose lookup
\* returned Some, in run order: the j-th vertex is built from the j-th such glyph.
C5_VertexOrderIsRunOrder ==
    (tv_out # TvNone /\ tv_out.ok) =>
        LET hit == HitGlyphs(tv_in.data, tv_in.cache)
        IN  /\ Len(tv_out.val) = Len(hit)
            /\ \A j \in 1..Len(hit) :
                  /\ tv_out.val[j].tex_tl = <<UvRect(hit[j]).min.x, UvRect(hit[j]).min.y>>
                  /\ tv_out.val[j].tl[1].num = AsF32(2 * ScreenRect(hit[j]).min.x)

\* the run 3, 2, 1 with glyph 2 missing: the vertices of glyph 3 and then glyph 1
C5_Witness ==
    /\ tv_in.data.glyphs = <<3, 2, 1>>
    /\ tv_in.cache.rects = <<"Some", "None", "Some">>
    /\ tv_out = Ok(<<ExpectedVertex(3, tv_in.data, tv_in.w, tv_in.h),
                     ExpectedVertex(1, tv_in.data, tv_in.w, tv_in.h)>>)

\* C6: every vertex has tl and br mapped by to_ndc from the min and max corner
\* of its glyph's screen rectangle, x with the width and y with the height,
\* tex_tl and tex_br copied from the uv rectangle, and the run's color and z.
C6_VertexFields ==
    (tv_out # TvNone /\ tv_out.ok) =>
        LET hit == HitGlyphs(tv_in.data, tv_in.cache)
        IN  \A j \in 1..Len(tv_out.val) :
               /\ j <= Len(hit)
               /\ tv_out.val[j] = ExpectedVertex(hit[j], tv_in.data, tv_in.w, tv_in.h)
               /\ tv_out.val[j].color = tv_in.data.color
               /\ tv_out.val[j].z = tv_in.data.z

\* the screen rectangle {min: (10, 20), max: (50, 80)} of glyph 1 on a 640 x 480
\* screen, in a red run at depth 1, after the vertex of glyph 2
C6_Witness ==
    /\ tv_in.data.glyphs = <<2, 1>>
    /\ tv_in.data.color = "red" /\ tv_in.data.z = 1
    /\ tv_in.w = 640 /\ tv_in.h = 480
    /\ tv_out # TvNone /\ tv_out.ok /\ Len(tv_out.val) = 2
    /\ tv_out.val[2].tl = <<[num |-> AsF32(20), den |-> AsF32(640)],
                            [num |-> AsF32(40), den |-> AsF32(480)]>>
    /\ tv_out.val[2].br = <<[num |-> AsF32(100), den |-> AsF32(640)],
                            [num |-> AsF32(160), den |-> AsF32(480)]>>
    /\ tv_out.val[2].color = "red" /\ tv_out.val[2].z = 1

-----------------------------------------------------------------------------
(* Properties of SpecNdc.                                                  *)

\* C4: for every pixel of the i32 range and every positive size,
\* to_ndc(0, size) = -1.0, to_ndc(size, size) = 1.0, and p1 < p2 implies
\* to_ndc(p1, size) <= to_ndc(p2, size).
C4_NdcEndpointsAndMonotone ==
    ndc_out.tag = "done" =>
        /\ ndc_out.zero.tag = "value" /\ NdcIsMinusOne(ndc_out.zero.v)
        /\ ndc_out.full.tag = "value" /\ NdcIsOne(ndc_out.full.v)
        /\ ndc_in.p1 < ndc_in.p2 =>
              /\ ndc_out.at1.tag = "value"
              /\ ndc_out.at2.tag = "value"
              /\ NdcLeq(ndc_out.at1.v, ndc_out.at2.v)

====
